---- MODULE Spec2Model ----
(***************************************************************************)
(* State-machine model of ShikiEditor (src/src/app.tsx): the persisted     *)
(* settings, the highlight pipeline (effects and their awaits), the code   *)
(* textarea and the numeric input controls.                                *)
(*                                                                         *)
(* Numbers of the numeric fields are kept in hundredths (2.5 is 250): the  *)
(* input pattern allows at most two decimals, so this is exact.            *)
(* An optional value is a sequence: <<>> is undefined, <<v>> is v.         *)
(***************************************************************************)
EXTENDS Integers, Sequences, FiniteSets, TLC

\* ------------------------------------------------------------------ bounds
MaxCodeLen == 2
MaxInflight == 2
MaxLoads == 2

\* ------------------------------------------------------------- vocabulary
None == <<>>
Some(v) == <<v>>

Absent == "undefined"
Null == "null"

Tsx == "tsx"
Rust == "rust"
MyLang == "mylang"

Latte == "catppuccin-latte"
Mocha == "catppuccin-mocha"
BrokenTheme == "broken-theme"
PlainTheme == "plain-theme"

\* the entries of the language and theme <select> controls
languages == {Tsx, Rust}
themes == {Latte, Mocha, BrokenTheme, PlainTheme}

TabChar == "\t"
TypedChars == {"a"}

defaultCode == <<"a">>

\* ------------------------------------------------------- numericInputCodec
Digits == {"0", "1", "2", "3", "4", "5", "6", "7", "8", "9"}

DigitValue(c) ==
    CASE c = "0" -> 0 [] c = "1" -> 1 [] c = "2" -> 2 [] c = "3" -> 3
      [] c = "4" -> 4 [] c = "5" -> 5 [] c = "6" -> 6 [] c = "7" -> 7
      [] c = "8" -> 8 [] c = "9" -> 9

AllDigits(s) == \A i \in 1..Len(s) : s[i] \in Digits

\* index of the first "." of s, 0 when there is none
DotIndex(s) ==
    IF \E i \in 1..Len(s) : s[i] = "."
    THEN CHOOSE i \in 1..Len(s) : s[i] = "." /\ \A j \in 1..(i - 1) : s[j] # "."
    ELSE 0

IntegerPart(s) == IF DotIndex(s) = 0 THEN s ELSE SubSeq(s, 1, DotIndex(s) - 1)
FractionPart(s) == IF DotIndex(s) = 0 THEN <<>> ELSE SubSeq(s, DotIndex(s) + 1, Len(s))

\* /^[0-9]+(\.[0-9]{1,2})?$/
MatchesNumericPattern(s) ==
    /\ Len(IntegerPart(s)) >= 1
    /\ AllDigits(IntegerPart(s))
    /\ \/ DotIndex(s) = 0
       \/ /\ Len(FractionPart(s)) \in 1..2
          /\ AllDigits(FractionPart(s))

RECURSIVE DigitsValue(_)
DigitsValue(s) ==
    IF s = <<>> THEN 0
    ELSE 10 * DigitsValue(SubSeq(s, 1, Len(s) - 1)) + DigitValue(s[Len(s)])

\* decode: Number(str), in hundredths, of a string that matched the pattern
NumberTruncated(s) == 100 * DigitsValue(IntegerPart(s))
Number(s) ==
    100 * DigitsValue(IntegerPart(s))
      + (IF Len(FractionPart(s)) = 1 THEN 10 * DigitsValue(FractionPart(s))
         ELSE DigitsValue(FractionPart(s)))

\* z.number().positive()
IsNonNegative(n) == n >= 0
IsPositive(n) == n > 0

\* numericInputCodec.safeDecode(value): None on failure, Some(data) on success
safeDecode(s) ==
    IF MatchesNumericPattern(s) /\ IsPositive(Number(s)) THEN Some(Number(s)) ELSE None

\* the strings typed or pasted into a numeric control
Str_empty == <<>>
Str_abc == <<"a", "b", "c">>
Str_0 == <<"0">>
Str_0_00 == <<"0", ".", "0", "0">>
Str_2_5 == <<"2", ".", "5">>
Str_2_50 == <<"2", ".", "5", "0">>
Str_48 == <<"4", "8">>
Str_2_dot == <<"2", ".">>
Str_dot_5 == <<".", "5">>
Str_2_555 == <<"2", ".", "5", "5", "5">>
NumericInputs ==
    {Str_empty, Str_abc, Str_0, Str_0_00, Str_2_5, Str_2_50, Str_48, Str_2_dot,
     Str_dot_5, Str_2_555}

\* ------------------------------------------------------- highlighter (shiki)
\* themes whose loadTheme / createHighlighter rejects
RejectingThemes == {BrokenTheme}
\* themes whose markup carries no background-color:#RRGGBB token
TokenlessThemes == {PlainTheme}

\* background color of a theme's markup, as <<R, G, B>>
ThemeBackground(t) ==
    CASE t = Latte -> <<239, 241, 245>>
      [] t = Mocha -> <<30, 30, 46>>
      [] OTHER -> <<0, 0, 0>>

\* the text handed to codeToHtml: code ? code + ' ' : ''
HighlightInput(c) == IF c = <<>> THEN <<>> ELSE c \o <<" ">>

\* highlighterRef.current.codeToHtml(text, {lang, theme}): the markup is
\* identified by the inputs that produced it
codeToHtml(c, lang, t) == [text |-> HighlightInput(c), lang |-> lang, theme |-> t]

\* html.match(/background-color:#([a-zA-Z0-9]{6})/gs) is not null
HasBackgroundToken(markup) == markup.theme \notin TokenlessThemes

\* value[0].replace('background-color:', '')
BackgroundOf(markup) == ThemeBackground(markup.theme)

\* isLight of ./utils/luma: broadcast luma (0.299R + 0.587G + 0.114B) at or
\* above the threshold of 150 is light
isLight(color) == 299 * color[1] + 587 * color[2] + 114 * color[3] >= 150 * 1000

\* isLight(color) ? 'light' : 'dark'
ClassifySchemeInverted(color) == IF isLight(color) THEN "dark" ELSE "light"
ClassifyScheme(color) == IF isLight(color) THEN "light" ELSE "dark"

\* ------------------------------------------------------------------ state
VARIABLES
    code,               \* useLocalStorage('code', defaultCode): sequence of characters
    selectionStart,     \* textarea.selectionStart
    selectionEnd,       \* textarea.selectionEnd
    cursorTimer,        \* pending setTimeout of the Tab handler: None or Some(position)
    language,           \* useLocalStorage('language'): Absent or an id
    theme,              \* useLocalStorage('theme'): Absent or an id
    customLanguageName, \* useLocalStorage('custom-language-name', null)
    colorScheme,        \* useLocalStorage('color-scheme', 'dark')
    scale,              \* useLocalStorage('scale'): None or Some(hundredths)
    spacing,            \* useLocalStorage('spacing')
    blur,               \* useLocalStorage('blur')
    html,               \* useState(''): None or Some(markup)
    backgroundColor,    \* useState(''): None or Some(color)
    highlighterRef,     \* None or Some([langs, themes]): the loaded languages and themes
    creating,           \* createHighlighter in flight: None or Some([langs, themes])
    highlighterReady,   \* useState(false)
    inflight,           \* highlight invocations suspended at await loadTheme
    pendingFx,          \* effects whose dependencies changed and that have not run yet
    prefersDark,        \* window.matchMedia('(prefers-color-scheme: dark)').matches
    lastEvent,          \* the handler or step that ran last, with its input and outcome
    userActed,          \* some user input handler has run since the page loaded
    customLanguageUrl,  \* useState(''): the text of the custom language URL input
    isLoadingCustomLang, \* useState(false)
    showCustomLangInput, \* useState(false): the popover with the URL input is open
    customLoads         \* loadCustomLanguage invocations suspended at an await

vars ==
    <<code, selectionStart, selectionEnd, cursorTimer, language, theme,
      customLanguageName, colorScheme, scale, spacing, blur, html, backgroundColor,
      highlighterRef, creating, highlighterReady, inflight, pendingFx, prefersDark,
      lastEvent, userActed, customLanguageUrl, isLoadingCustomLang,
      showCustomLangInput, customLoads>>

customVars ==
    <<customLanguageUrl, isLoadingCustomLang, showCustomLangInput, customLoads>>
textareaVars == <<selectionStart, selectionEnd, cursorTimer>>
fieldVars == <<scale, spacing, blur>>
renderVars == <<html, backgroundColor, colorScheme>>
highlighterVars == <<highlighterRef, creating, highlighterReady>>
settingVars == <<language, theme, customLanguageName>>

\* language ?? 'tsx' and theme ?? 'catppuccin-latte'
currentLang == IF language = Absent THEN Tsx ELSE language
currentTheme == IF theme = Absent THEN Latte ELSE theme

loadedLangs == IF highlighterRef = None THEN {} ELSE highlighterRef[1].langs
loadedThemes == IF highlighterRef = None THEN {} ELSE highlighterRef[1].themes

\* the effects in source order; they run one after the other, first first
FxRank(fx) ==
    CASE fx = "init" -> 1 [] fx = "customLang" -> 2 [] fx = "highlight" -> 3
      [] fx = "theme" -> 4
NextFx ==
    IF pendingFx = {} THEN "none"
    ELSE CHOOSE fx \in pendingFx : \A other \in pendingFx : FxRank(fx) <= FxRank(other)

\* the effects re-run by setLanguage(v): none when the value is the one held
LanguageFx(v) == IF v = language THEN {} ELSE {"customLang", "highlight"}
ThemeFx(v) == IF v = theme THEN {} ELSE {"highlight", "theme"}

PersistedSettings ==
    {<<Absent, Null>>, <<Tsx, Null>>, <<Rust, Null>>, <<MyLang, MyLang>>,
     <<Rust, MyLang>>, <<Tsx, Tsx>>}

Init ==
    /\ code = defaultCode
    /\ selectionStart = 0
    /\ selectionEnd = 0
    /\ cursorTimer = None
    /\ \E s \in PersistedSettings : language = s[1] /\ customLanguageName = s[2]
    /\ theme \in {Absent} \cup themes
    /\ colorScheme \in {"light", "dark"}
    /\ scale = None
    /\ spacing = None
    /\ blur = None
    /\ html = None
    /\ backgroundColor = None
    /\ highlighterRef = None
    /\ creating = None
    /\ highlighterReady = FALSE
    /\ inflight = {}
    /\ pendingFx = {"init", "customLang", "highlight", "theme"}
    /\ prefersDark \in BOOLEAN
    /\ lastEvent = [kind |-> "mount"]
    /\ userActed = FALSE
    /\ customLanguageUrl = ""
    /\ isLoadingCustomLang = FALSE
    /\ showCustomLangInput = FALSE
    /\ customLoads = <<>>

\* ---------------------------------------------------------------- effects
\* what createHighlighter is asked to load: the language and theme of the
\* first render, tsx in place of a persisted custom language
InitialConfig ==
    [themes |-> {currentTheme},
     langs |-> {IF customLanguageName # Null /\ currentLang = customLanguageName
                THEN Tsx ELSE currentLang}]

\* initHighlighter, up to its await
RunInit ==
    /\ NextFx = "init"
    /\ pendingFx' = pendingFx \ {"init"}
    /\ creating' = IF highlighterRef # None THEN creating ELSE Some(InitialConfig)
    /\ lastEvent' = [kind |-> "initHighlighter"]
    /\ UNCHANGED <<code, textareaVars, settingVars, fieldVars, renderVars,
                   highlighterRef, highlighterReady, inflight, customVars, prefersDark, userActed>>

\* createHighlighter resolves: the rest of initHighlighter
CreateResolve ==
    /\ pendingFx = {}
    /\ creating # None
    /\ creating[1].themes \cap RejectingThemes = {}
    /\ creating[1].langs \subseteq languages
    /\ highlighterRef' = creating
    /\ creating' = None
    /\ highlighterReady' = TRUE
    /\ pendingFx' = {"customLang", "highlight"}
    /\ lastEvent' = [kind |-> "highlighterCreated"]
    /\ UNCHANGED <<code, textareaVars, settingVars, fieldVars, renderVars, inflight,
                   customVars, prefersDark, userActed>>

\* createHighlighter rejects: initHighlighter ends with an unhandled rejection
CreateReject ==
    /\ pendingFx = {}
    /\ creating # None
    /\ \/ creating[1].themes \cap RejectingThemes # {}
       \/ ~(creating[1].langs \subseteq languages)
    /\ creating' = None
    /\ lastEvent' = [kind |-> "highlighterFailed"]
    /\ UNCHANGED <<code, textareaVars, settingVars, fieldVars, renderVars,
                   highlighterRef, highlighterReady, inflight, pendingFx, customVars, prefersDark,
                   userActed>>

\* the effect that drops a custom language the highlighter has not loaded
RunCustomLang ==
    /\ NextFx = "customLang"
    /\ IF /\ highlighterReady
          /\ highlighterRef # None
          /\ customLanguageName # Null
          /\ customLanguageName \notin loadedLangs
       THEN /\ customLanguageName' = Null
            /\ language' = IF language = customLanguageName THEN Tsx ELSE language
            /\ pendingFx' =
                 (pendingFx \ {"customLang"}) \cup {"customLang"}
                   \cup (IF language = customLanguageName THEN LanguageFx(Tsx) ELSE {})
       ELSE /\ UNCHANGED <<customLanguageName, language>>
            /\ pendingFx' = pendingFx \ {"customLang"}
    /\ lastEvent' = [kind |-> "customLanguageEffect"]
    /\ UNCHANGED <<code, textareaVars, theme, fieldVars, renderVars, highlighterVars,
                   inflight, customVars, prefersDark, userActed>>

\* systemPrefersDark ? 'catppuccin-mocha' : 'catppuccin-latte'
SystemThemeAlwaysLatte == Latte
SystemTheme == IF prefersDark THEN Mocha ELSE Latte

\* the effect that picks the theme of the system's color scheme when none is set
RunTheme ==
    /\ NextFx = "theme"
    /\ IF theme # Absent
       THEN /\ UNCHANGED theme
            /\ pendingFx' = pendingFx \ {"theme"}
       ELSE /\ theme' = SystemTheme
            /\ pendingFx' = (pendingFx \ {"theme"}) \cup {"highlight", "theme"}
    /\ lastEvent' = [kind |-> "themeEffect"]
    /\ UNCHANGED <<code, textareaVars, language, customLanguageName, fieldVars,
                   renderVars, highlighterVars, inflight, customVars, prefersDark, userActed>>

\* highlight from codeToHtml on (the invocation's captured code, language and
\* theme): the markup, then the background color, the color scheme and the html
CompleteHtmlFirst(inv) ==
    LET markup == codeToHtml(inv.code, inv.lang, inv.theme) IN
    /\ html' = Some(markup)
    /\ IF HasBackgroundToken(markup)
       THEN /\ backgroundColor' = Some(BackgroundOf(markup))
            /\ colorScheme' = ClassifyScheme(BackgroundOf(markup))
            /\ lastEvent' = [kind |-> "rendered"]
       ELSE /\ UNCHANGED <<backgroundColor, colorScheme>>
            /\ lastEvent' = [kind |-> "noBackground"]
Complete(inv) ==
    LET markup == codeToHtml(inv.code, inv.lang, inv.theme) IN
    IF HasBackgroundToken(markup)
    THEN /\ backgroundColor' = Some(BackgroundOf(markup))
         /\ colorScheme' = ClassifyScheme(BackgroundOf(markup))
         /\ html' = Some(markup)
         /\ lastEvent' = [kind |-> "rendered"]
    ELSE /\ UNCHANGED renderVars
         /\ lastEvent' = [kind |-> "noBackground"]

\* the highlight effect: one invocation of highlight, up to its await
RunHighlight ==
    /\ NextFx = "highlight"
    /\ UNCHANGED <<code, textareaVars, theme, customLanguageName, fieldVars,
                   highlighterVars, customVars, prefersDark, userActed>>
    /\ IF highlighterRef = None \/ ~highlighterReady
       THEN /\ pendingFx' = pendingFx \ {"highlight"}
            /\ lastEvent' = [kind |-> "notReady"]
            /\ UNCHANGED <<language, renderVars, inflight>>
       ELSE IF currentLang \notin loadedLangs
       THEN /\ language' = Tsx
            /\ pendingFx' = (pendingFx \ {"highlight"}) \cup LanguageFx(Tsx)
            /\ lastEvent' = [kind |-> "languageNotLoaded"]
            /\ UNCHANGED <<renderVars, inflight>>
       ELSE IF currentTheme \notin loadedThemes
       THEN /\ inflight' =
                 inflight \cup {[code |-> code, lang |-> currentLang, theme |-> currentTheme]}
            /\ pendingFx' = pendingFx \ {"highlight"}
            /\ lastEvent' = [kind |-> "suspended"]
            /\ UNCHANGED <<language, renderVars>>
       ELSE /\ Complete([code |-> code, lang |-> currentLang, theme |-> currentTheme])
            /\ pendingFx' = pendingFx \ {"highlight"}
            /\ UNCHANGED <<language, inflight>>

\* await loadTheme(currentTheme) resolves: the invocation goes on with the
\* code, language and theme it captured
LoadThemeResolve(inv) ==
    /\ pendingFx = {}
    /\ inv \in inflight
    /\ inv.theme \notin RejectingThemes
    /\ inflight' = inflight \ {inv}
    /\ highlighterRef' =
         Some([highlighterRef[1] EXCEPT !.themes = @ \cup {inv.theme}])
    /\ Complete(inv)
    /\ UNCHANGED <<code, textareaVars, settingVars, fieldVars, creating,
                   highlighterReady, pendingFx, customVars, prefersDark, userActed>>

\* await loadTheme(currentTheme) rejects: the catch logs the error
LoadThemeReject(inv) ==
    /\ pendingFx = {}
    /\ inv \in inflight
    /\ inv.theme \in RejectingThemes
    /\ inflight' = inflight \ {inv}
    /\ lastEvent' = [kind |-> "threw"]
    /\ UNCHANGED <<code, textareaVars, settingVars, fieldVars, renderVars,
                   highlighterVars, pendingFx, customVars, prefersDark, userActed>>

\* ------------------------------------------------------------ user input
\* an input event is dispatched once the effects of the last render have run;
\* MaxInflight caps the invocations left suspended
Idle == pendingFx = {}
MayStartHighlight == Cardinality(inflight) < MaxInflight

\* <select> of the language: onChange={(e) => setLanguage(e.target.value)}
SelectLanguage(l) ==
    /\ Idle
    /\ MayStartHighlight
    /\ l \in languages \cup (IF customLanguageName # Null THEN {customLanguageName} ELSE {})
    /\ l # currentLang
    /\ language' = l
    /\ pendingFx' = LanguageFx(l)
    /\ lastEvent' = [kind |-> "selectLanguage"]
    /\ userActed' = TRUE
    /\ UNCHANGED <<code, textareaVars, theme, customLanguageName, fieldVars,
                   renderVars, highlighterVars, inflight, customVars, prefersDark>>

\* <select> of the theme: onChange={(e) => setTheme(e.target.value)}
SelectTheme(t) ==
    /\ Idle
    /\ MayStartHighlight
    /\ t \in themes
    /\ t # currentTheme
    /\ theme' = t
    /\ pendingFx' = ThemeFx(t)
    /\ lastEvent' = [kind |-> "selectTheme"]
    /\ userActed' = TRUE
    /\ UNCHANGED <<code, textareaVars, language, customLanguageName, fieldVars,
                   renderVars, highlighterVars, inflight, customVars, prefersDark>>

\* onChange of a numeric control: the value the field holds afterwards
NumericOnChange(field, value) ==
    IF value = <<>> THEN None
    ELSE IF safeDecode(value) # None THEN Some(safeDecode(value)[1])
         ELSE field

ScaleOnChange(value) ==
    /\ Idle
    /\ value \in NumericInputs
    /\ scale' = NumericOnChange(scale, value)
    /\ lastEvent' = [kind |-> "numericInput", field |-> "scale", value |-> value]
    /\ userActed' = TRUE
    /\ UNCHANGED <<code, textareaVars, settingVars, spacing, blur, renderVars,
                   highlighterVars, inflight, pendingFx, customVars, prefersDark>>

SpacingOnChange(value) ==
    /\ Idle
    /\ value \in NumericInputs
    /\ spacing' = NumericOnChange(spacing, value)
    /\ lastEvent' = [kind |-> "numericInput", field |-> "spacing", value |-> value]
    /\ userActed' = TRUE
    /\ UNCHANGED <<code, textareaVars, settingVars, scale, blur, renderVars,
                   highlighterVars, inflight, pendingFx, customVars, prefersDark>>

BlurOnChange(value) ==
    /\ Idle
    /\ value \in NumericInputs
    /\ blur' = NumericOnChange(blur, value)
    /\ lastEvent' = [kind |-> "numericInput", field |-> "blur", value |-> value]
    /\ userActed' = TRUE
    /\ UNCHANGED <<code, textareaVars, settingVars, scale, spacing, renderVars,
                   highlighterVars, inflight, pendingFx, customVars, prefersDark>>

\* ---------------------------------------------------------- custom language
\* what is typed into the URL input of the popover, and what each URL serves
UrlNotUrl == "language.json"
UrlFtp == "ftp://example.com/language.json"
UrlGood == "https://example.com/mylang.json"
UrlTsxGrammar == "https://example.com/tsx.json"
UrlMissing == "https://example.com/missing.json"
UrlNotGrammar == "https://example.com/package.json"
UrlBadGrammar == "https://example.com/broken.json"
Urls ==
    {UrlNotUrl, UrlFtp, UrlGood, UrlTsxGrammar, UrlMissing, UrlNotGrammar, UrlBadGrammar}

\* langValidation.data.name of the grammars that loadLanguage accepts
LoadableGrammars == {UrlGood, UrlTsxGrammar}
GrammarName(url) == IF url = UrlTsxGrammar THEN Tsx ELSE MyLang

\* httpUrlSchema.safeParse(url).success
httpUrlValid(url) ==
    url \in {UrlGood, UrlTsxGrammar, UrlMissing, UrlNotGrammar, UrlBadGrammar}

\* the URL input is mounted while the popover is open and takes no event
\* while disabled={isLoadingCustomLang}
InputEnabledWhileLoading == showCustomLangInput
InputEnabled == showCustomLangInput /\ ~isLoadingCustomLang

\* Popover.Root onOpenChange={setShowCustomLangInput}
TogglePopover ==
    /\ Idle
    /\ showCustomLangInput' = ~showCustomLangInput
    /\ lastEvent' = [kind |-> "togglePopover"]
    /\ userActed' = TRUE
    /\ UNCHANGED <<code, textareaVars, settingVars, fieldVars, renderVars,
                   highlighterVars, inflight, pendingFx, prefersDark, customLanguageUrl,
                   isLoadingCustomLang, customLoads>>

\* onChange={(e) => setCustomLanguageUrl(e.target.value)}
TypeUrl(url) ==
    /\ Idle
    /\ InputEnabled
    /\ url \in Urls \cup {""}
    /\ url # customLanguageUrl
    /\ customLanguageUrl' = url
    /\ lastEvent' = [kind |-> "urlInput"]
    /\ userActed' = TRUE
    /\ UNCHANGED <<code, textareaVars, settingVars, fieldVars, renderVars,
                   highlighterVars, inflight, pendingFx, prefersDark,
                   isLoadingCustomLang, showCustomLangInput, customLoads>>

\* loadCustomLanguage, up to its first await; by is the handler that called it
loadCustomLanguage(by) ==
    IF customLanguageUrl = "" \/ highlighterRef = None
    THEN /\ lastEvent' = [kind |-> "loadSkipped", by |-> by]
         /\ UNCHANGED <<isLoadingCustomLang, customLoads>>
    ELSE IF ~httpUrlValid(customLanguageUrl)
    THEN /\ lastEvent' = [kind |-> "invalidUrl", by |-> by]
         /\ UNCHANGED <<isLoadingCustomLang, customLoads>>
    ELSE /\ isLoadingCustomLang' = TRUE
         /\ customLoads' = Append(customLoads, [url |-> customLanguageUrl, stage |-> "fetch"])
         /\ lastEvent' = [kind |-> "fetchStarted", by |-> by]

\* onKeyDown of the URL input with e.key === 'Enter'
KeyDownEnter ==
    /\ Idle
    /\ InputEnabled
    /\ Len(customLoads) < MaxLoads
    /\ loadCustomLanguage("enter")
    /\ userActed' = TRUE
    /\ UNCHANGED <<code, textareaVars, settingVars, fieldVars, renderVars,
                   highlighterVars, inflight, pendingFx, prefersDark, customLanguageUrl,
                   showCustomLangInput>>

\* onBlur of the URL input
BlurUrlInput ==
    /\ Idle
    /\ InputEnabled
    /\ Len(customLoads) < MaxLoads
    /\ IF customLanguageUrl # "" /\ httpUrlValid(customLanguageUrl)
       THEN loadCustomLanguage("blur")
       ELSE /\ lastEvent' = [kind |-> "blurIgnored"]
            /\ UNCHANGED <<isLoadingCustomLang, customLoads>>
    /\ userActed' = TRUE
    /\ UNCHANGED <<code, textareaVars, settingVars, fieldVars, renderVars,
                   highlighterVars, inflight, pendingFx, prefersDark, customLanguageUrl,
                   showCustomLangInput>>

\* customLoads without its i-th invocation
WithoutLoad(i) == SubSeq(customLoads, 1, i - 1) \o SubSeq(customLoads, i + 1, Len(customLoads))

\* the catch and the finally of loadCustomLanguage
LoadFails(i) ==
    /\ customLoads' = WithoutLoad(i)
    /\ isLoadingCustomLang' = FALSE
    /\ lastEvent' = [kind |-> "customLanguageFailed"]
    /\ UNCHANGED <<code, textareaVars, settingVars, fieldVars, renderVars,
                   highlighterVars, inflight, pendingFx, prefersDark, userActed,
                   customLanguageUrl, showCustomLangInput>>

\* the invocation moves on to its next await
LoadAdvances(i, stage) ==
    /\ customLoads' = [customLoads EXCEPT ![i].stage = stage]
    /\ lastEvent' = [kind |-> "customLanguageAwait"]
    /\ UNCHANGED <<code, textareaVars, settingVars, fieldVars, renderVars,
                   highlighterVars, inflight, pendingFx, prefersDark, userActed,
                   customLanguageUrl, isLoadingCustomLang, showCustomLangInput>>

\* await fetch(url) settles: a response that is not ok throws
FetchSettles(i) ==
    /\ Idle
    /\ i \in 1..Len(customLoads)
    /\ customLoads[i].stage = "fetch"
    /\ IF customLoads[i].url = UrlMissing THEN LoadFails(i) ELSE LoadAdvances(i, "json")

\* await response.json() settles: data that is no language registration throws
JsonSettles(i) ==
    /\ Idle
    /\ i \in 1..Len(customLoads)
    /\ customLoads[i].stage = "json"
    /\ IF customLoads[i].url = UrlNotGrammar
       THEN LoadFails(i)
       ELSE LoadAdvances(i, "loadLanguage")

\* await loadLanguage(...) resolves: the language is selected and remembered
LoadLanguageResolves(i) ==
    /\ Idle
    /\ i \in 1..Len(customLoads)
    /\ customLoads[i].stage = "loadLanguage"
    /\ customLoads[i].url \in LoadableGrammars
    /\ highlighterRef' =
         Some([highlighterRef[1] EXCEPT !.langs = @ \cup {GrammarName(customLoads[i].url)}])
    /\ language' = GrammarName(customLoads[i].url)
    /\ customLanguageName' = GrammarName(customLoads[i].url)
    /\ customLanguageUrl' = ""
    /\ showCustomLangInput' = FALSE
    /\ isLoadingCustomLang' = FALSE
    /\ customLoads' = WithoutLoad(i)
    /\ pendingFx' =
         LanguageFx(GrammarName(customLoads[i].url))
           \cup (IF customLanguageName = GrammarName(customLoads[i].url)
                 THEN {} ELSE {"customLang"})
    /\ lastEvent' = [kind |-> "customLanguageLoaded"]
    /\ UNCHANGED <<code, textareaVars, theme, fieldVars, renderVars, creating,
                   highlighterReady, inflight, prefersDark, userActed>>

\* await loadLanguage(...) rejects
LoadLanguageRejects(i) ==
    /\ Idle
    /\ i \in 1..Len(customLoads)
    /\ customLoads[i].stage = "loadLanguage"
    /\ customLoads[i].url \notin LoadableGrammars
    /\ LoadFails(i)

\* ---------------------------------------------------------------- textarea
\* the callback of setTimeout(..., 0) runs before the next event of the textarea
TextareaIdle == Idle /\ cursorTimer = None

\* target.value.substring(0, start) + '\t' + target.value.substring(end)
TabInsertedDropsNext(value, start, end) ==
    SubSeq(value, 1, start) \o <<TabChar>> \o SubSeq(value, end + 2, Len(value))
TabInserted(value, start, end) ==
    SubSeq(value, 1, start) \o <<TabChar>> \o SubSeq(value, end + 1, Len(value))

\* onKeyDown with event.key === 'Tab'; the re-render with the new value leaves
\* the caret at the end of the text until the timer moves it
KeyDownTab ==
    /\ TextareaIdle
    /\ MayStartHighlight
    /\ Len(TabInserted(code, selectionStart, selectionEnd)) <= MaxCodeLen
    /\ code' = TabInserted(code, selectionStart, selectionEnd)
    /\ selectionStart' = Len(code')
    /\ selectionEnd' = Len(code')
    /\ cursorTimer' = Some(selectionStart + 1)
    /\ pendingFx' = {"highlight"}
    /\ lastEvent' = [kind |-> "tab", start |-> selectionStart, end |-> selectionEnd]
    /\ userActed' = TRUE
    /\ UNCHANGED <<settingVars, fieldVars, renderVars, highlighterVars, inflight,
                   customVars, prefersDark>>

\* the timer of the Tab handler: target.selectionStart = target.selectionEnd = start + 1
CursorTimerFires ==
    /\ Idle
    /\ cursorTimer # None
    /\ selectionStart' = cursorTimer[1]
    /\ selectionEnd' = cursorTimer[1]
    /\ cursorTimer' = None
    /\ lastEvent' = [kind |-> "cursorTimer"]
    /\ UNCHANGED <<code, settingVars, fieldVars, renderVars, highlighterVars, inflight,
                   pendingFx, customVars, prefersDark, userActed>>

\* a character typed over the selection: onChange={(e) => setCode(e.target.value)}
TypeChar(c) ==
    /\ TextareaIdle
    /\ MayStartHighlight
    /\ c \in TypedChars
    /\ Len(code) - (selectionEnd - selectionStart) < MaxCodeLen
    /\ code' = SubSeq(code, 1, selectionStart) \o <<c>>
                 \o SubSeq(code, selectionEnd + 1, Len(code))
    /\ selectionStart' = selectionStart + 1
    /\ selectionEnd' = selectionStart + 1
    /\ pendingFx' = {"highlight"}
    /\ lastEvent' = [kind |-> "codeInput"]
    /\ userActed' = TRUE
    /\ UNCHANGED <<cursorTimer, settingVars, fieldVars, renderVars, highlighterVars,
                   inflight, customVars, prefersDark>>

\* the selection or the character before the caret deleted: the same onChange
DeleteBackward ==
    /\ TextareaIdle
    /\ MayStartHighlight
    /\ selectionEnd > 0
    /\ LET from == IF selectionStart = selectionEnd THEN selectionStart - 1
                   ELSE selectionStart
       IN /\ code' = SubSeq(code, 1, from) \o SubSeq(code, selectionEnd + 1, Len(code))
          /\ selectionStart' = from
          /\ selectionEnd' = from
    /\ pendingFx' = {"highlight"}
    /\ lastEvent' = [kind |-> "codeInput"]
    /\ userActed' = TRUE
    /\ UNCHANGED <<cursorTimer, settingVars, fieldVars, renderVars, highlighterVars,
                   inflight, customVars, prefersDark>>

\* the caret moved or a range selected in the textarea
MoveSelection(start, end) ==
    /\ TextareaIdle
    /\ start \in 0..Len(code)
    /\ end \in start..Len(code)
    /\ <<start, end>> # <<selectionStart, selectionEnd>>
    /\ selectionStart' = start
    /\ selectionEnd' = end
    /\ lastEvent' = [kind |-> "select"]
    /\ userActed' = TRUE
    /\ UNCHANGED <<code, cursorTimer, settingVars, fieldVars, renderVars,
                   highlighterVars, inflight, pendingFx, customVars, prefersDark>>

\* ------------------------------------------------------------ render surface
\* padding: `${spacing || 48}px`, scale: scale ?? 1.25, filter: blur(${blur ?? 10}px),
\* opacity: 0.2 of the blurred layer; all in hundredths
DefaultSpacing == 4800
DefaultScale == 125
DefaultBlur == 1000
BlurLayerOpacity == 20

Rendered == html # None
AppliedSpacing == IF spacing = None \/ spacing = Some(0) THEN DefaultSpacing ELSE spacing[1]
AppliedScale == IF scale = None THEN DefaultScale ELSE scale[1]
AppliedBlurFixed == DefaultBlur
AppliedBlur == IF blur = None THEN DefaultBlur ELSE blur[1]
AppliedOpacity == BlurLayerOpacity

\* ---------------------------------------------------------- specifications
\* the steps no user takes: the effects and the promises that settle
Pipeline ==
    \/ RunInit
    \/ RunCustomLang
    \/ RunHighlight
    \/ RunTheme
    \/ CreateResolve
    \/ \E inv \in inflight : LoadThemeResolve(inv)

\* the input handlers, by the control they belong to
SettingsInput ==
    \/ \E l \in languages \cup {MyLang} : SelectLanguage(l)
    \/ \E t \in themes : SelectTheme(t)

FieldsInput ==
    \/ \E value \in NumericInputs : ScaleOnChange(value)
    \/ \E value \in NumericInputs : SpacingOnChange(value)
    \/ \E value \in NumericInputs : BlurOnChange(value)

CodeInput ==
    \/ \E c \in TypedChars : TypeChar(c)
    \/ DeleteBackward

TextareaInput ==
    \/ KeyDownTab
    \/ \E start \in 0..MaxCodeLen, end \in 0..MaxCodeLen : MoveSelection(start, end)

\* the page loaded with nothing in storage
EmptySettings ==
    /\ language = Absent
    /\ theme = Absent
    /\ customLanguageName = Null
    /\ colorScheme = "dark"
InitEmpty == Init /\ EmptySettings

\* the highlight pipeline under changes of language, theme and code
Next ==
    \/ Pipeline
    \/ CreateReject
    \/ \E inv \in inflight : LoadThemeReject(inv)
    \/ SettingsInput
    \/ CodeInput
Spec == Init /\ [][Next]_vars

\* the same on a page loaded with nothing in storage, where createHighlighter is
\* asked for tsx and catppuccin-latte; the effects run and the promises settle
NextEmpty ==
    \/ Pipeline
    \/ \E inv \in inflight : LoadThemeReject(inv)
    \/ SettingsInput
    \/ CodeInput
SpecEmpty == InitEmpty /\ [][NextEmpty]_vars /\ WF_vars(Pipeline)

\* the numeric controls, on a page loaded with nothing in storage
NextFields == Pipeline \/ FieldsInput
SpecFields == InitEmpty /\ [][NextFields]_vars

\* the code textarea, on a page loaded with nothing in storage
NextTextarea == Pipeline \/ CursorTimerFires \/ CodeInput \/ TextareaInput
SpecTextarea == InitEmpty /\ [][NextTextarea]_vars

\* the custom language popover, with the language select, on a page loaded with
\* any persisted language; the promises of loadCustomLanguage settle, and their
\* continuations run once the effects of the current render have run
CustomLangInput ==
    \/ TogglePopover
    \/ \E url \in Urls \cup {""} : TypeUrl(url)
    \/ KeyDownEnter
    \/ BlurUrlInput
LoadSettles ==
    \/ \E i \in 1..MaxLoads : FetchSettles(i)
    \/ \E i \in 1..MaxLoads : JsonSettles(i)
    \/ \E i \in 1..MaxLoads : LoadLanguageResolves(i)
    \/ \E i \in 1..MaxLoads : LoadLanguageRejects(i)
InitCustomLang == Init /\ theme \in {Absent, Latte} /\ colorScheme = "dark"
NextCustomLang ==
    \/ Pipeline
    \/ CustomLangInput
    \/ LoadSettles
    \/ \E l \in languages \cup {MyLang} : SelectLanguage(l)
SpecCustomLang ==
    InitCustomLang /\ [][NextCustomLang]_vars /\ WF_vars(Pipeline) /\ SF_vars(LoadSettles)

\* ------------------------------------------------------------------ claims
\* what the last numeric input event was aimed at
FieldValue(f) ==
    CASE f = "scale" -> scale [] f = "spacing" -> spacing [] f = "blur" -> blur
NumericFields == {"scale", "spacing", "blur"}

\* the inputs the pattern [0-9]+([.][0-9]{1,2})? accepts and the number, in
\* hundredths, each denotes
PatternInputs == {Str_0, Str_0_00, Str_2_5, Str_2_50, Str_48}
Denotes(s) ==
    CASE s = Str_0 -> 0 [] s = Str_0_00 -> 0 [] s = Str_2_5 -> 250
      [] s = Str_2_50 -> 250 [] s = Str_48 -> 4800

\* no effect is pending and no promise of the highlighter is outstanding
Settled == Idle /\ inflight = {} /\ creating = None

\* C1: once every highlight invocation has completed, the displayed markup is
\* the one produced for the current code, language and theme (whenever the
\* highlighter can render them): a superseded invocation never overwrites the
\* result of a later one.
C1_StaleResultsNeverOverwrite ==
    ( /\ Settled
      /\ highlighterReady
      /\ currentLang \in loadedLangs
      /\ currentTheme \in loadedThemes
      /\ currentTheme \notin TokenlessThemes )
    => html = Some([text |-> HighlightInput(code), lang |-> currentLang,
                    theme |-> currentTheme])

\* C2: whenever a background color has been resolved, colorScheme is the
\* classification of that color, and colorScheme changes only in the step of the
\* highlight that writes the background color and the markup.
C2_ColorSchemeFollowsBackground ==
    /\ [](backgroundColor # None =>
            colorScheme = (IF isLight(backgroundColor[1]) THEN "light" ELSE "dark"))
    /\ [][colorScheme' # colorScheme =>
            /\ lastEvent'.kind = "rendered"
            /\ html' # None
            /\ backgroundColor' = Some(ThemeBackground(html'[1].theme))]_vars
C2_Witness ==
    /\ lastEvent.kind = "rendered"
    /\ userActed
    /\ backgroundColor = Some(ThemeBackground(Latte))
    /\ colorScheme = "light"

\* C3: an input that does not match the numeric pattern leaves the field of the
\* control absent, whatever it held.
C3_InvalidInputClearsField ==
    (lastEvent.kind = "numericInput" /\ lastEvent.value \notin PatternInputs)
    => FieldValue(lastEvent.field) = None

\* C4: every stored numeric field is absent or a positive number that a string
\* matching the pattern denotes.
C4_StoredFieldsValid ==
    \A f \in NumericFields :
        \/ FieldValue(f) = None
        \/ /\ FieldValue(f)[1] > 0
           /\ \E s \in PatternInputs : Denotes(s) = FieldValue(f)[1]
C4_Witness ==
    /\ lastEvent.kind = "numericInput"
    /\ lastEvent.value = Str_2_555
    /\ lastEvent.field = "scale"
    /\ scale = Some(250)
    /\ spacing = Some(4800)

\* C5 as claimed: after any input the pattern accepts ("0" and "0.00" too), the
\* field holds the number the input denotes.
C5_RoundTripOfEveryPatternInput ==
    (lastEvent.kind = "numericInput" /\ lastEvent.value \in PatternInputs)
    => FieldValue(lastEvent.field) = Some(Denotes(lastEvent.value))

\* C5, amended: after an input the pattern accepts that denotes a positive
\* number, the field holds that number.
C5_RoundTripOfPositiveInput ==
    ( /\ lastEvent.kind = "numericInput"
      /\ lastEvent.value \in PatternInputs
      /\ Denotes(lastEvent.value) > 0 )
    => FieldValue(lastEvent.field) = Some(Denotes(lastEvent.value))
C5_Witness ==
    /\ lastEvent.kind = "numericInput"
    /\ lastEvent.value = Str_2_50
    /\ lastEvent.field = "blur"
    /\ blur = Some(250)

\* C6: the system never settles on a language the highlighter has not loaded or
\* on a theme whose load rejects: the offending setting is reset to a usable one.
C6_NeverStuckOnUnusable ==
    (Settled /\ highlighterReady)
    => (currentLang \in loadedLangs /\ currentTheme \notin RejectingThemes)

\* C7: a highlight invocation that ends without a result (highlighter not ready,
\* language not loaded, theme load rejected, no background-color token) leaves
\* html, backgroundColor and colorScheme as they were.
C7_FailedHighlightKeepsRender ==
    [][lastEvent'.kind \in {"notReady", "languageNotLoaded", "threw", "noBackground"}
         => UNCHANGED <<html, backgroundColor, colorScheme>>]_vars
C7_Witness ==
    /\ lastEvent.kind = "noBackground"
    /\ html # None
    /\ html[1].theme # currentTheme

\* C8: Tab with the caret at p and no selection makes code the text with one tab
\* character inserted at p, every other character kept in order, and the timer
\* it arms leaves the caret at p + 1 when it fires.
C8_TabInsertsAtCaret ==
    [][ /\ (lastEvent'.kind = "tab" /\ selectionStart = selectionEnd) =>
            /\ Len(code') = Len(code) + 1
            /\ code'[selectionStart + 1] = TabChar
            /\ \A i \in 1..Len(code) :
                   code'[IF i <= selectionStart THEN i ELSE i + 1] = code[i]
            /\ cursorTimer' = Some(selectionStart + 1)
        /\ (cursorTimer # None /\ lastEvent'.kind # "cursorTimer") =>
            cursorTimer' = cursorTimer
        /\ lastEvent'.kind = "cursorTimer" =>
            /\ cursorTimer # None
            /\ selectionStart' = cursorTimer[1]
            /\ selectionEnd' = cursorTimer[1]
            /\ code' = code ]_vars
C8_Witness ==
    /\ lastEvent.kind = "cursorTimer"
    /\ code = <<TabChar, "a">>
    /\ selectionStart = 1
    /\ selectionEnd = 1

\* C9 as claimed: the render surface applies scale 1.25, spacing 48, blur 10 and
\* opacity 0.8 for absent fields, and the stored value of a field that is present.
C9_DocumentedDefaultsApplied ==
    Rendered =>
        /\ AppliedScale = (IF scale = None THEN 125 ELSE scale[1])
        /\ AppliedSpacing = (IF spacing = None THEN 4800 ELSE spacing[1])
        /\ AppliedBlur = (IF blur = None THEN 1000 ELSE blur[1])
        /\ AppliedOpacity = 80

\* C9, amended: scale 1.25, spacing 48 and blur 10 for absent fields, the stored
\* value of a field that is present, and an opacity of 0.2 that no setting changes.
C9_SourceDefaultsApplied ==
    Rendered =>
        /\ AppliedScale = (IF scale = None THEN 125 ELSE scale[1])
        /\ AppliedSpacing = (IF spacing = None THEN 4800 ELSE spacing[1])
        /\ AppliedBlur = (IF blur = None THEN 1000 ELSE blur[1])
        /\ AppliedOpacity = 20
C9_Witness ==
    /\ Rendered
    /\ scale = None
    /\ spacing = None
    /\ blur = Some(250)

\* C10 as claimed: on a page loaded with nothing in storage and left alone, the
\* markup shown is the default snippet in tsx and catppuccin-latte, with the
\* color scheme of that theme, whatever the environment.
C10_FixedDefaultThemeShown ==
    (~userActed /\ Rendered)
    => /\ html = Some([text |-> HighlightInput(defaultCode), lang |-> Tsx, theme |-> Latte])
       /\ colorScheme = "light"

\* C10, amended: on a page loaded with nothing in storage and left alone, the
\* default snippet is eventually shown in tsx and in catppuccin-mocha when the
\* system prefers dark, catppuccin-latte otherwise, with the color scheme of that
\* theme's background; nothing else is shown before.
C10_EnvironmentThemeOf == IF prefersDark THEN Mocha ELSE Latte
C10_ShowsDefault ==
    /\ html = Some([text |-> HighlightInput(defaultCode), lang |-> Tsx,
                    theme |-> C10_EnvironmentThemeOf])
    /\ colorScheme = (IF prefersDark THEN "dark" ELSE "light")
C10_DefaultSnippetEventuallyShown ==
    /\ <>(userActed \/ C10_ShowsDefault)
    /\ []((~userActed /\ Rendered) => C10_ShowsDefault)
C10_Witness ==
    /\ ~userActed
    /\ prefersDark
    /\ lastEvent.kind = "rendered"
    /\ C10_ShowsDefault

\* C11: once the highlighter is ready and the effects have run, customLanguageName
\* is null or a loaded language, and language is not a custom language that is
\* not loaded; on a page reloaded with the persisted custom language selected,
\* the custom language effect resets customLanguageName to null and language to
\* tsx, tsx is loaded, and the snippet is rendered once everything has completed.
C11_NameIsNullOrLoaded ==
    (Idle /\ highlighterReady)
    => /\ customLanguageName = Null \/ customLanguageName \in loadedLangs
       /\ language \notin languages \cup {Absent} => language \in loadedLangs
C11_ReloadedWithCustomSelected ==
    /\ ~userActed
    /\ highlighterReady
    /\ customLanguageName # Null
    /\ language = customLanguageName
C11_ReloadResets ==
    (C11_ReloadedWithCustomSelected /\ lastEvent'.kind = "customLanguageEffect")
    => /\ customLanguageName' = Null
       /\ language' = Tsx
       /\ Tsx \in loadedLangs
C11_CustomLanguageConsistent ==
    /\ [](C11_NameIsNullOrLoaded)
    /\ [][C11_ReloadResets]_vars
    /\ []((~userActed /\ Settled /\ highlighterReady) => Rendered)

\* C12: at most one invocation of loadCustomLanguage is past its fetch at a time:
\* under any interleaving of the Enter key, blur, typing and the popover, a fetch
\* starts only while isLoadingCustomLang is false and none is outstanding, and
\* every invocation that started a fetch sets isLoadingCustomLang back to false,
\* on success and on failure.
C12_FetchStarts == Len(customLoads') > Len(customLoads)
C12_OneLoadInFlight ==
    /\ [](Len(customLoads) <= 1)
    /\ [](customLoads # <<>> => isLoadingCustomLang)
    /\ [][C12_FetchStarts => (~isLoadingCustomLang /\ customLoads = <<>>)]_vars
    /\ [][lastEvent'.kind \in {"customLanguageLoaded", "customLanguageFailed"}
            => ~isLoadingCustomLang']_vars
    /\ (lastEvent.kind = "fetchStarted") ~> ~isLoadingCustomLang
C12_Witness ==
    /\ showCustomLangInput
    /\ isLoadingCustomLang
    /\ Len(customLoads) = 1
    /\ customLoads[1].stage = "loadLanguage"
    /\ lastEvent.kind = "customLanguageAwait"

====
